---- MODULE Spec2Model ----
(***************************************************************************)
(* Model of the Reverb inventory processor scripts.                        *)
(*                                                                         *)
(* Three parts share this module:                                          *)
(*   - the Reverb Data Scraper's identifier pipeline (extract_asin_from_sku,*)
(*     is_valid_asin, generate_link), checked under SpecScraper;           *)
(*   - the row loop of the scraper's process_store_file, which puts every  *)
(*     row in the resolved or the manual-review list, checked under        *)
(*     SpecStoreFile;                                                      *)
(*   - the row loops of the updater scripts (Multi Store Inventory Updater,*)
(*     Multi Store Price and Inventory Updater, Price Variance Updater,    *)
(*     Reverb Updater), checked under Spec.                                *)
(*                                                                         *)
(* A Python string is a sequence of one-character tokens; a character      *)
(* outside ASCII is named by its code point ("U+00E9").  A fixed literal   *)
(* such as a URL prefix is one token at the head of the sequence.          *)
(***************************************************************************)
EXTENDS Integers, Sequences, FiniteSets, TLC

VARIABLES
    sPc,        \* scraper: position in the pipeline for the current input
    sParts,     \* scraper: the pieces the current input string was built from
    sIn,        \* scraper: the input value handed to the functions
    sExt,       \* scraper: result of extract_asin_from_sku(sIn)
    sVal,       \* scraper: result of is_valid_asin(sIn)
    sLink,      \* scraper: result of generate_link(sIn)
    sChk,       \* scraper: is_valid_asin / generate_link on the extracted ASIN
    sRow,       \* scraper: the rows of the store file read so far
    valid_data,          \* scraper: the resolved rows of the store file
    invalid_data,        \* scraper: the rows of the store file for manual review
    verification_stats,  \* scraper: the counters of process_store_file
    mPc,        \* scraper: position of main()
    file_pos,   \* scraper: how many names of STORE_FILES the loop has taken
    cur_file,   \* scraper: the input file of the store name taken last
    all_valid_data,      \* scraper: the valid frames collected by main()
    all_invalid_data,    \* scraper: the manual review frames collected by main()
    files_processed,     \* scraper: files_processed of main()
    output,     \* scraper: the workbook written by main()
    script,     \* updater: which script is running
    fast_mode,  \* updater: FAST_MODE of the Price Variance Updater
    pc,         \* updater: position of main()
    remote,     \* updater: the listing as Reverb holds it
    stats,      \* updater: the stats counters of the store being processed
    update_count,        \* updater: update_count of the Price Variance Updater
    price_variance_data, \* updater: the review records collected so far
    calls,      \* updater: the remote calls issued for the current row, in order
    last,       \* updater: the locals of the current row
    store,      \* updater: current_store_number of the multi-store scripts
    overall_stats,       \* updater: the run-level counters of the multi-store scripts
    saved,      \* updater: the price variance review file on disk
    fPc,        \* a function on its own: before or after the call
    fIn,        \* a function on its own: the arguments of the call
    fOut        \* a function on its own: what the call returned

fileVars == <<sRow, valid_data, invalid_data, verification_stats>>

mainVars ==
    <<mPc, file_pos, cur_file, all_valid_data, all_invalid_data, files_processed, output>>

scraperVars == <<sPc, sParts, sIn, sExt, sVal, sLink, sChk, fileVars, mainVars>>

updaterVars ==
    <<script, fast_mode, pc, remote, stats, update_count, price_variance_data, calls, last,
      store, overall_stats, saved>>

funcVars == <<fPc, fIn, fOut>>

vars == <<scraperVars, updaterVars, funcVars>>

(***************************************************************************)
(* Bounds of the model.                                                    *)
(***************************************************************************)
MaxPad == 1          \* most whitespace characters put around an input

MaxRows == 2         \* most spreadsheet rows processed in one run

MaxStores == 2       \* most store groups in one spreadsheet

MaxFileRows == 2     \* most rows in one store file of the scraper

(***************************************************************************)
(* Character classes, as the Python calls of the source classify them.     *)
(***************************************************************************)
AsciiUpper == {"B", "C", "E", "K", "M", "N", "T", "W", "X", "Y", "Z"}

AsciiLower == {"b", "e", "n", "w", "z"}

\* [A-Za-z] of the patterns
AsciiLetters == AsciiUpper \cup AsciiLower

\* the digits of [A-Za-z0-9]
AsciiDigits == {"0", "1", "2", "3", "4", "5", "6", "7", "8", "9"}

\* [A-Za-z0-9] of the 10-character patterns
AsciiAlnum == AsciiLetters \cup AsciiDigits

\* c.isalpha(): every Unicode letter; U+00E9 is a letter outside [A-Za-z]
IsAlphaChars == AsciiLetters \cup {"U+00E9"}

\* \d of a str pattern: every Unicode decimal digit; U+0663 is ARABIC-INDIC DIGIT THREE
ReDigitChars == AsciiDigits \cup {"U+0663"}

\* str.isdigit(): the decimal digits and the other digit characters (U+00B2, superscript two)
IsDigitChars == ReDigitChars \cup {"U+00B2"}

\* what str.strip() removes
WhitespaceChars == {" ", "LF"}

(***************************************************************************)
(* Python string helpers.                                                  *)
(***************************************************************************)
MinOf(S) == CHOOSE x \in S : \A y \in S : x <= y

MaxOf(S) == CHOOSE x \in S : \A y \in S : x >= y

\* str.strip(): drop leading and trailing whitespace
strip(s) ==
    LET keep == {i \in 1..Len(s) : s[i] \notin WhitespaceChars}
    IN  IF keep = {} THEN <<>> ELSE SubSeq(s, MinOf(keep), MaxOf(keep))

\* str.isdigit(): non-empty and every character a digit
isdigit(s) == Len(s) > 0 /\ \A i \in 1..Len(s) : s[i] \in IsDigitChars

NoMatch == [matched |-> FALSE, group |-> <<>>]

\* a suffix class that takes the upper-case N only
SuffixFirstChars_UpperOnly == {"N"}

\* first character class of the suffix in the four patterns: [Nn]
SuffixFirstChars == {"N", "n"}

\* re.match(r'^[A-Za-z]+-(<Class>{n})-[Nn]<tail>$', s): the match and its group 1.
\* '$' matches at the end of the string and just before a final newline.
ReMatchSku(s, Class, n, tail) ==
    LET L == Len(s)
        total(i) == i + 1 + n + 1 + 1 + Len(tail)
        fits(i) ==
            /\ \/ L = total(i)
               \/ L = total(i) + 1 /\ s[L] = "LF"
            /\ \A k \in 1..i : s[k] \in AsciiLetters
            /\ s[i + 1] = "-"
            /\ \A k \in (i + 2)..(i + 1 + n) : s[k] \in Class
            /\ s[i + n + 2] = "-"
            /\ s[i + n + 3] \in SuffixFirstChars
            /\ \A j \in 1..Len(tail) : s[i + n + 3 + j] = tail[j]
        cands == {i \in 1..L : fits(i)}
    IN  IF cands = {} THEN NoMatch
        ELSE LET i == CHOOSE c \in cands : TRUE
             IN  [matched |-> TRUE, group |-> SubSeq(s, i + 2, i + 1 + n)]

\* match1 or match2
OrMatch(m1, m2) == IF m1.matched THEN m1 ELSE m2

(***************************************************************************)
(* Reverb Data Scraper: the identifier functions.                          *)
(* A value is [kind |-> "str", s |-> <chars>], or a missing cell           *)
(* [kind |-> "nan"], or a number [kind |-> "num"].                         *)
(***************************************************************************)
Str(s) == [kind |-> "str", s |-> s]

NaNValue == [kind |-> "nan", s |-> <<>>]

NumValue == [kind |-> "num", s |-> <<>>]

\* pd.isna(v) or not isinstance(v, str)
NotAString(v) == v.kind # "str"

\* a letter check that lets every code through
CodeHasLetter_Always(code) == TRUE

\* any(c.isalpha() for c in code), in extract_asin_from_sku
CodeHasLetter(code) == \E i \in 1..Len(code) : code[i] \in IsAlphaChars

\* a swap that reverses the code character by character
SwapHalves_Reversed(code, n) == [i \in 1..Len(code) |-> code[Len(code) + 1 - i]]

\* a swap whose first slice is one character short: code[:n-1]
SwapHalves_ShortSlice(code, n) == SubSeq(code, n + 1, Len(code)) \o SubSeq(code, 1, n - 1)

\* first_half = code[:n]; second_half = code[n:]; asin = second_half + first_half
SwapHalves(code, n) == SubSeq(code, n + 1, Len(code)) \o SubSeq(code, 1, n)

ExtractFailure == [asin |-> <<>>, ok |-> FALSE]

extract_asin_from_sku(v) ==
    IF NotAString(v) THEN ExtractFailure
    ELSE
    LET sku == strip(v.s)
        match_10 == OrMatch(ReMatchSku(sku, AsciiAlnum, 10, <<"e", "w">>),
                            ReMatchSku(sku, AsciiAlnum, 10, <<>>))
        match_12 == OrMatch(ReMatchSku(sku, ReDigitChars, 12, <<"e", "w">>),
                            ReMatchSku(sku, ReDigitChars, 12, <<>>))
    IN  IF match_10.matched /\ CodeHasLetter(match_10.group)
        THEN [asin |-> SwapHalves(match_10.group, 5), ok |-> TRUE]
        ELSE IF match_12.matched /\ isdigit(match_12.group)
        THEN [asin |-> SwapHalves(match_12.group, 6), ok |-> TRUE]
        ELSE ExtractFailure

\* a validator that takes every 10-character identifier
AsinHasLetter_Always(asin) == TRUE

\* any(c.isalpha() for c in asin), in is_valid_asin
AsinHasLetter(asin) == \E i \in 1..Len(asin) : asin[i] \in IsAlphaChars

is_valid_asin(v) ==
    IF NotAString(v) \/ strip(v.s) = <<>>
    THEN [valid |-> FALSE, reason |-> "Empty or missing ASIN"]
    ELSE
    LET asin == strip(v.s)
        asin_len == Len(asin)
    IN  IF asin_len = 10
        THEN IF AsinHasLetter(asin)
             THEN [valid |-> TRUE, reason |-> "Valid Amazon ASIN"]
             ELSE [valid |-> FALSE, reason |-> "Length 10 but no alphabets"]
        ELSE IF asin_len = 12
        THEN IF isdigit(asin)
             THEN [valid |-> TRUE, reason |-> "Valid eBay ASIN"]
             ELSE [valid |-> FALSE, reason |-> "Length 12 but contains non-numeric characters"]
        ELSE [valid |-> FALSE, reason |-> "Invalid length"]

AmazonPrefix == <<"https://www.amazon.com/dp/">>

EbayPrefix == <<"https://www.ebay.com/itm/">>

\* a link test on the length alone
LinkIsAmazon_AnyTen(asin) == Len(asin) = 10

\* asin_len == 10 and any(c.isalpha() for c in asin)
LinkIsAmazon(asin) == Len(asin) = 10 /\ \E i \in 1..Len(asin) : asin[i] \in IsAlphaChars

\* asin_len == 12 and asin.isdigit()
LinkIsEbay(asin) == Len(asin) = 12 /\ isdigit(asin)

generate_link(v) ==
    IF NotAString(v) \/ v.s = <<>> THEN <<>>
    ELSE
    LET asin == strip(v.s)
    IN  IF LinkIsAmazon(asin) THEN AmazonPrefix \o asin
        ELSE IF LinkIsEbay(asin) THEN EbayPrefix \o asin
        ELSE <<>>

(***************************************************************************)
(* Reverb Data Scraper: convert_to_string, the text of a SKU cell.         *)
(***************************************************************************)
\* 'e+' in value_str.lower() or 'e-' in value_str.lower()
HasExponentMark(s) ==
    \E i \in 1..(Len(s) - 1) : s[i] \in {"e", "E"} /\ s[i + 1] \in {"+", "-"}

ExponentAt(s) ==
    MinOf({i \in 1..(Len(s) - 1) : s[i] \in {"e", "E"} /\ s[i + 1] \in {"+", "-"}})

DecimalDigits == <<"0", "1", "2", "3", "4", "5", "6", "7", "8", "9">>

DigitValue(c) == (CHOOSE n \in 1..Len(DecimalDigits) : DecimalDigits[n] = c) - 1

RECURSIVE NumberOf(_)
NumberOf(ds) ==
    IF ds = <<>> THEN 0
    ELSE 10 * NumberOf(SubSeq(ds, 1, Len(ds) - 1)) + DigitValue(ds[Len(ds)])

AllAsciiDigits(ds) == \A i \in 1..Len(ds) : ds[i] \in AsciiDigits

\* the mantissa, the sign and the exponent of a text digits[.digits]E(+|-)digits
SciParts(s) ==
    LET e == ExponentAt(s)
        mant == SubSeq(s, 1, e - 1)
        dots == {i \in 1..Len(mant) : mant[i] = "."}
        dot == IF dots = {} THEN Len(mant) + 1 ELSE MinOf(dots)
    IN  [whole |-> SubSeq(mant, 1, dot - 1),
         frac |-> SubSeq(mant, dot + 1, Len(mant)),
         dots |-> Cardinality(dots),
         sign |-> s[e + 1],
         exp |-> SubSeq(s, e + 2, Len(s))]

\* float(value_str) returns, for a text with an exponent mark: a decimal
\* mantissa and a decimal exponent
FloatAccepts(s) ==
    LET p == SciParts(s)
    IN  /\ p.dots <= 1
        /\ Len(p.whole) + Len(p.frac) > 0
        /\ AllAsciiDigits(p.whole) /\ AllAsciiDigits(p.frac)
        /\ Len(p.exp) > 0 /\ AllAsciiDigits(p.exp)

\* int(num) raises OverflowError when the float is infinite
FloatIsInfinite(s) ==
    LET p == SciParts(s)
    IN  p.sign = "+" /\ NumberOf(p.exp) + Len(p.whole) > 309

Zeros(n) == [i \in 1..n |-> "0"]

DropLeadingZeros(ds) ==
    LET nz == {i \in 1..Len(ds) : ds[i] # "0"}
    IN  IF nz = {} THEN <<"0">> ELSE SubSeq(ds, MinOf(nz), Len(ds))

\* f"{int(num)}" for num = float(value_str): the digits before the decimal
\* point once the exponent is applied
IntText(s) ==
    LET p == SciParts(s)
        n == NumberOf(p.exp)
        shift == (IF p.sign = "+" THEN n ELSE -n) - Len(p.frac)
        m == p.whole \o p.frac
    IN  DropLeadingZeros(IF shift >= 0 THEN m \o Zeros(shift)
                                       ELSE SubSeq(m, 1, Len(m) + shift))

\* the number a numeric SKU cell holds, 853596316522, as f"{int(value)}"
\* and str(value) write it
NumText == <<"8", "5", "3", "5", "9", "6", "3", "1", "6", "5", "2", "2">>

convert_to_string(value) ==
    IF value.kind = "nan" THEN <<>>
    ELSE IF value.kind = "str"
    THEN LET value_str == strip(value.s)
         IN  IF HasExponentMark(value_str) /\ FloatAccepts(value_str)
                /\ ~FloatIsInfinite(value_str)
             THEN IntText(value_str)
             ELSE value_str
    ELSE NumText

(***************************************************************************)
(* Inputs of the scraper functions: strings put together from a prefix, a  *)
(* code made of two halves, a suffix, separators and surrounding           *)
(* whitespace; and the values that are not strings.                        *)
(***************************************************************************)
Pad(n) == [i \in 1..n |-> " "]

Pads == {Pad(n) : n \in 0..MaxPad}

Prefixes == {<<>>, <<"M", "Z", "M">>, <<"M", "4">>, <<"U+00E9">>}

Seps1 == {<<"-">>, <<"_">>}

Seps2 == {<<"-">>, <<>>}

Halves ==
    { <<"4", "K", "T", "C", "X">>, <<"B", "0", "C", "Y", "Z">>,
      <<"1", "2", "3", "4", "5">>, <<"1", "U+00E9", "3", "4", "5">>,
      <<"8", "5", "3", "5", "9", "6">>, <<"3", "1", "6", "5", "2", "b">>,
      <<"U+0663", "1", "6", "5", "2", "2">> }

Codes == {a \o b : a \in Halves, b \in Halves}

SufNew == <<"N", "e", "w">>

SufN == <<"N">>

\* every letter-case variant of "New" and of "N"
CaseVariantsNew == {<<a, b, c>> : a \in {"N", "n"}, b \in {"E", "e"}, c \in {"W", "w"}}

CaseVariantsN == {<<"N">>, <<"n">>}

Suffixes == CaseVariantsNew \cup CaseVariantsN \cup {<<>>, <<"N", "e">>}

PartsSet ==
    [padL : Pads, pre : Prefixes, sep1 : Seps1, code : Codes,
     sep2 : Seps2, suf : Suffixes, padR : Pads]

NoParts ==
    [padL |-> <<>>, pre |-> <<>>, sep1 |-> <<>>, code |-> <<>>,
     sep2 |-> <<>>, suf |-> <<>>, padR |-> <<>>]

\* a bare identifier, with or without whitespace around it
IdParts == {[NoParts EXCEPT !.padL = l, !.code = c, !.padR = r] :
                l \in Pads, c \in Codes, r \in Pads}

Assemble(p) == p.padL \o p.pre \o p.sep1 \o p.code \o p.sep2 \o p.suf \o p.padR

(***************************************************************************)
(* The SKU cells of a store file: SKUs put together from parts, bare       *)
(* identifiers, a number in scientific notation, and cells that are not    *)
(* strings.                                                                *)
(***************************************************************************)
FileCodes ==
    { <<"4", "K", "T", "C", "X", "B", "0", "C", "Y", "Z">>,
      <<"1", "2", "3", "4", "5", "1", "2", "3", "4", "5">>,
      <<"1", "U+00E9", "3", "4", "5", "B", "0", "C", "Y", "Z">>,
      <<"8", "5", "3", "5", "9", "6", "8", "5", "3", "5", "9", "6">>,
      <<"8", "5", "3", "5", "9", "6", "3", "1", "6", "5", "2", "b">> }

FileParts ==
    [padL : {<<>>, <<" ">>}, pre : {<<"M", "Z", "M">>}, sep1 : {<<"-">>},
     code : FileCodes, sep2 : {<<"-">>}, suf : {SufNew, <<"n">>, <<"N", "e">>},
     padR : {<<>>}]

FileIdParts ==
    {[NoParts EXCEPT !.code = c] :
        c \in {<<"B", "0", "C", "Y", "Z", "4", "K", "T", "C", "X">>, NumText}}

\* the text 4.01642E+11
SciText == <<"4", ".", "0", "1", "6", "4", "2", "E", "+", "1", "1">>

NotRun == [done |-> FALSE]

(***************************************************************************)
(* Updater scripts: values.                                                *)
(* An optional value (Python None or a number) is None or Some(x).  Prices *)
(* are whole dollars.  A stock quantity is a float, kept in halves (h = 3  *)
(* is 1.5), or NaN.                                                        *)
(***************************************************************************)
None == [has |-> FALSE, v |-> 0]

Some(x) == [has |-> TRUE, v |-> x]

Abs(x) == IF x >= 0 THEN x ELSE -x

\* MSI: Multi Store Inventory Updater; MSPI: Multi Store Price and Inventory
\* Updater; PVU: Price Variance Updater; RU: Reverb Updater
Scripts == {"MSI", "MSPI", "PVU", "RU"}

PRICE_VARIANCE_THRESHOLD == 50

VALIDATE_EVERY_N == 5

max_retries == 3

\* a spreadsheet cell: empty (pd.notna is False), text float() rejects,
\* the text "nan" (float() gives NaN), the text "inf" (float() gives
\* infinity), or a number
MissingCell == [k |-> "nan", v |-> 0]

BadCell == [k |-> "bad", v |-> 0]

NanTextCell == [k |-> "nantext", v |-> 0]

InfTextCell == [k |-> "inftext", v |-> 0]

NumCell(n) == [k |-> "num", v |-> n]

\* stock cells that hold a number, in halves: -1.5 and 1.5
StockNumbers == {NumCell(h) : h \in {-3, 3}}

\* stock cells that hold text: not a number, 'nan', 'inf'
StockTexts == {BadCell, NanTextCell, InfTextCell}

\* stock cells of the multi-store scripts
StockCells == {MissingCell} \cup StockTexts \cup StockNumbers

\* stock numbers of the Reverb Updater, in halves: 6.5, 7, 10, 10.5
StockNumbersRU == {NumCell(h) : h \in {13, 14, 20, 21}}

\* stock cells of the Reverb Updater
StockCellsRU == {MissingCell} \cup StockTexts \cup StockNumbersRU

PriceCells == {MissingCell, BadCell} \cup {NumCell(n) : n \in {-1, 0, 50, 100, 149, 150}}

\* price cells for the raise-only scripts: below, at and above the remote price
PriceCellsRaise == {MissingCell, BadCell} \cup {NumCell(n) : n \in {50, 100, 150}}

\* sku: "ok" for a usable SKU, "blank" for a missing, empty or 'nan' one
BlankSkuRow == [sku |-> "blank", stock |-> MissingCell, price |-> MissingCell]

\* a stock cell holding text comes with no price or with a price of 150
TextStockRows ==
    [sku : {"ok"}, stock : StockTexts, price : {MissingCell, NumCell(150)}]

Rows == [sku : {"ok"}, stock : {MissingCell} \cup StockNumbers, price : PriceCells]
            \cup TextStockRows \cup {BlankSkuRow}

\* the Multi Store Inventory Updater reads no price column
RowsMSI == {r \in Rows : r.price = MissingCell}

RowsMSPI == {r \in Rows : r.price \in PriceCellsRaise}

RowsRU == [sku : {"ok"}, stock : {MissingCell} \cup StockNumbersRU, price : PriceCellsRaise]
            \cup TextStockRows \cup {BlankSkuRow}

NumPrice(n) == [k |-> "num", v |-> n]

\* a price whose amount float() rejects
BadPrice == [k |-> "bad", v |-> 0]

NoListing == [exists |-> FALSE, inv |-> 0, price |-> NumPrice(100)]

InitRemotes ==
    {NoListing} \cup [exists : {TRUE}, inv : {0, 1}, price : {NumPrice(100), BadPrice}]

\* try: stock = float(row['STOCK']) if pd.notna(row['STOCK']) else 0
\* except (ValueError, TypeError): stock = 0
ParseStock(cell) ==
    IF cell.k = "num" THEN [nan |-> FALSE, inf |-> FALSE, h |-> cell.v]
    ELSE IF cell.k = "nantext" THEN [nan |-> TRUE, inf |-> FALSE, h |-> 0]
    ELSE IF cell.k = "inftext" THEN [nan |-> FALSE, inf |-> TRUE, h |-> 0]
    ELSE [nan |-> FALSE, inf |-> FALSE, h |-> 0]

\* try: posted_price = float(row[price_column]) if pd.notna(row[price_column]) else None
\* except (ValueError, TypeError): posted_price = None
ParsePrice(cell) == IF cell.k = "num" THEN Some(cell.v) ELSE None

\* int(x) of a float given in halves: truncation toward zero
IntOfHalves(h) == IF h >= 0 THEN h \div 2 ELSE -((-h) \div 2)

\* int(stock) of an infinite float raises OverflowError
IntRaises(stock) == ~stock.nan /\ stock.inf

\* calculate_inventory of the multi-store scripts, where int(stock) returns
calculate_inventory(stock) == IF stock.nan THEN 0 ELSE IntOfHalves(stock.h)

\* stock < x and stock <= x for a float stock and an integer x
StockBelow(stock, x) == ~stock.inf /\ stock.h < 2 * x

\* an upper test that leaves the boundary out
StockAtMost_Strict(stock, x) == ~stock.inf /\ stock.h < 2 * x

StockAtMost(stock, x) == ~stock.inf /\ stock.h <= 2 * x

\* calculate_inventory of the Reverb Updater: stock < 7, 7 <= stock <= 10, else
calculate_inventory_RU(stock) ==
    IF stock.nan \/ StockBelow(stock, 7) THEN 0
    ELSE IF ~StockBelow(stock, 7) /\ StockAtMost(stock, 10) THEN 1
    ELSE 2

\* the remote calls: get_listing_by_sku (ok: a listing came back) and
\* update_listing (ok: status 200), with the payload's fields
Get(found) == [op |-> "GET", ok |-> found, inv |-> None, price |-> None]

Put(inv, price, ok) == [op |-> "PUT", ok |-> ok, inv |-> inv, price |-> price]

\* get_listing_by_sku: None when there is no listing, and on a 401, another
\* status or a request error
FetchOutcomes(rem) == IF rem.exists THEN {TRUE, FALSE} ELSE {FALSE}

ZeroStats ==
    [total |-> 0, inventory_updated |-> 0, inventory_skipped |-> 0,
     inventory_validated |-> 0, inventory_validation_failed |-> 0,
     price_updated |-> 0, price_skipped |-> 0, price_added_to_review |-> 0,
     price_skipped_no_change |-> 0, not_found |-> 0, errors |-> 0,
     combined_updates |-> 0]

Inc(st, f) == [st EXCEPT ![f] = @ + 1]

IncIf(st, cond, f) == IF cond THEN Inc(st, f) ELSE st

NoRow == [sku |-> "none", stock |-> MissingCell, price |-> MissingCell]

\* a position that stays at the first row
RowProgress_Stuck(st) == 1

\* the position of the row in its store's rows: progress = [stats['total']/n]
RowProgress(st) == st.total

\* the locals of a row: how far it got (kind), the inventories compared, the
\* posted price, the parsed Reverb price, and the number of review records
\* when the row started; with them the row's position and the counters as
\* they were when the row started
RowLocals(kind, row, cur, target, posted, reverb, before) ==
    [kind |-> kind, row |-> row, current_inventory |-> cur,
     target_inventory |-> target, posted_price |-> posted,
     reverb_price |-> reverb, review_before |-> before,
     index |-> RowProgress(Inc(stats, "total")), stats_before |-> stats]

NoLast ==
    [kind |-> "none", row |-> NoRow, current_inventory |-> 0,
     target_inventory |-> 0, posted_price |-> None,
     reverb_price |-> None, review_before |-> 0,
     index |-> 0, stats_before |-> ZeroStats]

\* the review file: absent, or holding the records of the last save
NoFile == [exists |-> FALSE, records |-> <<>>]

\* save_price_variance_review: the file is written anew with the records given
save_price_variance_review(variance_data) == [exists |-> TRUE, records |-> variance_data]

\* a store completion that does not save
SaveAfterStore_Never(file, variance_data) == file

\* after each store: if price_variance_data: save_price_variance_review(...)
SaveAfterStore(file, variance_data) ==
    IF variance_data # <<>> THEN save_price_variance_review(variance_data) ELSE file

(***************************************************************************)
(* Updater scripts: the steps of a row.  A step that calls the remote      *)
(* gives the set of its possible results [stats, remote, calls].           *)
(***************************************************************************)
Result(st, rem, cl) == [stats |-> st, remote |-> rem, calls |-> cl]

\* validate_inventory_update with retries: reads[i] tells whether the i-th
\* re-read returns a listing; inv is the inventory Reverb holds
RECURSIVE ValidateLoop(_, _, _, _, _)
ValidateLoop(attempt, reads, inv, expected, log) ==
    IF attempt > max_retries THEN [ok |-> FALSE, log |-> log]
    ELSE IF ~reads[attempt]
         THEN ValidateLoop(attempt + 1, reads, inv, expected, Append(log, Get(FALSE)))
         ELSE IF inv = expected
              THEN [ok |-> TRUE, log |-> Append(log, Get(TRUE))]
              ELSE ValidateLoop(attempt + 1, reads, inv, expected, Append(log, Get(TRUE)))

\* a validation that reports success without a re-read
validate_inventory_update_Silent(reads, inv, expected) == [ok |-> TRUE, log |-> <<>>]

\* a validation that makes the re-reads and reports success whatever they show
validate_inventory_update_Trusting(reads, inv, expected) ==
    [ok |-> TRUE, log |-> ValidateLoop(1, reads, inv, expected, <<>>).log]

\* a validation of one re-read, given up when the listing does not come back
validate_inventory_update_Once(reads, inv, expected) ==
    [ok |-> reads[1] /\ inv = expected, log |-> <<Get(reads[1])>>]

\* a validation that goes on re-reading after a re-read that matched
validate_inventory_update_ReadsOn(reads, inv, expected) ==
    [ok |-> ValidateLoop(1, reads, inv, expected, <<>>).ok,
     log |-> [i \in 1..max_retries |-> Get(reads[i])]]

validate_inventory_update(reads, inv, expected) ==
    ValidateLoop(1, reads, inv, expected, <<>>)

ReadSeqs == [1..max_retries -> BOOLEAN]

\* validate_inventory_update of the Price Variance Updater: a single check
validate_inventory_update_PVU(read, inv, expected) ==
    [ok |-> read /\ inv = expected, log |-> <<Get(read)>>]

\* an inventory test that always asks for an update
InventoryDiffers_Always(current_inventory, target_inventory) == TRUE

\* if current_inventory != target_inventory  (MSI, MSPI, RU)
InventoryDiffers(current_inventory, target_inventory) ==
    current_inventory # target_inventory

\* what Reverb holds after a PUT answered 200: the inventory sent, or still the
\* old one (the write has not landed)
StoredInventory(rem, target, landed) == [rem EXCEPT !.inv = IF landed THEN target ELSE @]

\* TASK 1 of MSI, MSPI and RU: update the inventory if different, then validate
InventoryTask(st, rem, target) ==
    IF InventoryDiffers(rem.inv, target)
    THEN {Result(Inc(st, "errors"), rem, <<Put(Some(target), None, FALSE)>>)}
         \cup
         { LET rem1 == StoredInventory(rem, target, landed)
               v == validate_inventory_update(rd, rem1.inv, target)
               st1 == Inc(st, IF v.ok THEN "inventory_validated"
                                      ELSE "inventory_validation_failed")
           IN  Result(Inc(st1, "inventory_updated"), rem1,
                      <<Put(Some(target), None, TRUE)>> \o v.log)
           : landed \in BOOLEAN, rd \in ReadSeqs }
    ELSE {Result(Inc(st, "inventory_skipped"), rem, <<>>)}

\* a raise test that also fires on equal prices
PostedAboveReverb_OrEqual(posted_price, reverb_price) == posted_price >= reverb_price

\* a price test that fires on any difference, a lower posted price too
PostedAboveReverb_Differs(posted_price, reverb_price) == posted_price # reverb_price

\* MSPI: if posted_price > reverb_price
PostedAboveReverb(posted_price, reverb_price) == posted_price > reverb_price

\* RU: if current_reverb_price < excel_price
ReverbBelowExcel(current_reverb_price, excel_price) == current_reverb_price < excel_price

\* TASK 2 of MSPI and RU: raise the price, never lower it.  price is the price
\* of the listing fetched at the start of the row.
PriceTask(scr, st, rem, posted) ==
    IF ~posted.has THEN {Result(st, rem, <<>>)}
    ELSE IF rem.price.k = "bad" THEN {Result(Inc(st, "errors"), rem, <<>>)}
    ELSE IF (IF scr = "MSPI" THEN PostedAboveReverb(posted.v, rem.price.v)
                             ELSE ReverbBelowExcel(rem.price.v, posted.v))
    THEN {Result(Inc(st, "errors"), rem, <<Put(None, posted, FALSE)>>),
          Result(Inc(st, "price_updated"), [rem EXCEPT !.price = NumPrice(posted.v)],
                 <<Put(None, posted, TRUE)>>)}
    ELSE {Result(Inc(st, "price_skipped"), rem, <<>>)}

\* a threshold test that leaves the boundary out
ExceedsThreshold_Strict(price_difference) == price_difference > PRICE_VARIANCE_THRESHOLD

\* PVU: if price_difference >= PRICE_VARIANCE_THRESHOLD
ExceedsThreshold(price_difference) == price_difference >= PRICE_VARIANCE_THRESHOLD

\* PVU: the price decision of a row whose posted price is positive
PriceDecision(posted_price, reverb_price) ==
    LET price_difference == Abs(posted_price - reverb_price)
    IN  IF ExceedsThreshold(price_difference)
        THEN [should_update_price |-> TRUE, add_to_review |-> TRUE,
              no_change |-> FALSE, difference |-> price_difference,
              direction |-> IF posted_price > reverb_price THEN "INCREASE" ELSE "DECREASE"]
        ELSE IF price_difference > 0
        THEN [should_update_price |-> TRUE, add_to_review |-> FALSE,
              no_change |-> FALSE, difference |-> price_difference, direction |-> ""]
        ELSE [should_update_price |-> FALSE, add_to_review |-> FALSE,
              no_change |-> TRUE, difference |-> price_difference, direction |-> ""]

NoPriceDecision ==
    [should_update_price |-> FALSE, add_to_review |-> FALSE, no_change |-> FALSE,
     difference |-> 0, direction |-> ""]

\* a test that lets a zero posted price through
PostedPriceUsable_ZeroAllowed(posted) == posted.has /\ posted.v >= 0

\* PVU: if posted_price is not None and posted_price > 0
PostedPriceUsable(posted) == posted.has /\ posted.v > 0

\* PVU: need_inventory_update = current_inventory != target_inventory
need_inventory_update(current_inventory, target_inventory) ==
    current_inventory # target_inventory

ReviewRecord(reverb_price, posted_price, d) ==
    [reverb_price |-> reverb_price, posted_price |-> posted_price,
     difference |-> d.difference, direction |-> d.direction]

\* a cadence that validates every update when FAST_MODE is off
SampleValidation_Every(fast, uc) == ~fast

\* if not FAST_MODE and update_count % VALIDATE_EVERY_N == 0
SampleValidation(fast, uc) == ~fast /\ uc % VALIDATE_EVERY_N = 0

\* PVU: the combined update of a row and its counters; uc is update_count.
\* Gives the possible [stats, remote, calls, update_count].
CombinedUpdate(st, rem, uc, fast, target, posted, d) ==
    LET need_inv == need_inventory_update(rem.inv, target)
        need_price == d.should_update_price
        inv == IF need_inv THEN Some(target) ELSE None
        price == IF need_price THEN posted ELSE None
        R(s, r, c, u) == [stats |-> s, remote |-> r, calls |-> c, update_count |-> u]
    IN  IF need_inv \/ need_price
        THEN {R(Inc(st, "errors"), rem, <<Put(inv, price, FALSE)>>, uc)}
             \cup
             { LET rem1 == IF need_inv THEN StoredInventory(rem, target, landed) ELSE rem
                   rem2 == IF need_price THEN [rem1 EXCEPT !.price = NumPrice(posted.v)]
                                         ELSE rem1
                   uc1 == IF need_inv THEN uc + 1 ELSE uc
                   validating == need_inv /\ SampleValidation(fast, uc1)
                   v == validate_inventory_update_PVU(read, rem2.inv, target)
                   s1 == IncIf(st, need_inv, "inventory_updated")
                   s2 == IncIf(IncIf(s1, validating /\ v.ok, "inventory_validated"),
                               validating /\ ~v.ok, "inventory_validation_failed")
                   s3 == IncIf(s2, need_price /\ d.add_to_review, "price_added_to_review")
                   s4 == IncIf(s3, need_price, "price_updated")
                   s5 == IncIf(s4, need_inv /\ need_price, "combined_updates")
               IN  R(s5, rem2,
                     <<Put(inv, price, TRUE)>> \o (IF validating THEN v.log ELSE <<>>), uc1)
               : landed \in BOOLEAN, read \in BOOLEAN }
        ELSE {R(Inc(st, "inventory_skipped"), rem, <<>>, uc)}

\* no function is run on its own
FuncIdle ==
    /\ fPc = "idle"
    /\ fIn = <<>>
    /\ fOut = <<>>

\* the updater scripts are not running
UpdaterIdle ==
    /\ script = "none"
    /\ fast_mode = TRUE
    /\ pc = "idle"
    /\ remote = NoListing
    /\ stats = ZeroStats
    /\ update_count = 0
    /\ price_variance_data = <<>>
    /\ calls = <<>>
    /\ last = NoLast
    /\ store = 0
    /\ overall_stats = ZeroStats
    /\ saved = NoFile

\* valid_data = [], invalid_data = [] and the counters at zero
NoFileOutput ==
    /\ sRow = 0
    /\ valid_data = <<>>
    /\ invalid_data = <<>>
    /\ verification_stats = [extracted_from_sku |-> 0, no_asin |-> 0]

\* no input file of a store
NoInputFile == [found |-> FALSE, sku_column |-> FALSE, rows |-> <<>>]

\* valid_df or invalid_df is None
NoFrame == [store |-> "", n |-> 0]

\* no workbook in the output directory
NoOutput == [written |-> FALSE, Data |-> 0, Review |-> 0]

\* main() of the scraper is not running
MainIdle ==
    /\ mPc = "idle"
    /\ file_pos = 0
    /\ cur_file = NoInputFile
    /\ all_valid_data = <<>>
    /\ all_invalid_data = <<>>
    /\ files_processed = 0
    /\ output = NoOutput

\* the scraper is not running
ScraperIdle ==
    /\ sPc = "idle"
    /\ sParts = NoParts
    /\ sIn = Str(<<>>)
    /\ sExt = NotRun
    /\ sVal = NotRun
    /\ sLink = NotRun
    /\ sChk = NotRun
    /\ NoFileOutput
    /\ MainIdle

(***************************************************************************)
(* The scraper specification: pick an input, then run the functions on it  *)
(* in the order process_store_file uses them.                              *)
(***************************************************************************)
InitScraper ==
    /\ sPc = "input"
    /\ \/ \E p \in PartsSet : sParts = p /\ sIn = Str(Assemble(p))
       \/ \E p \in IdParts : sParts = p /\ sIn = Str(Assemble(p))
       \/ sParts = NoParts /\ sIn \in {NaNValue, NumValue, Str(<<>>)}
    /\ sExt = NotRun
    /\ sVal = NotRun
    /\ sLink = NotRun
    /\ sChk = NotRun
    /\ NoFileOutput
    /\ MainIdle
    /\ UpdaterIdle
    /\ FuncIdle

\* extracted_asin, extraction_success = extract_asin_from_sku(sku)
Extract ==
    /\ sPc = "input"
    /\ sExt' = [done |-> TRUE, r |-> extract_asin_from_sku(sIn)]
    /\ sPc' = "extracted"
    /\ UNCHANGED <<sParts, sIn, sVal, sLink, sChk>>
    /\ UNCHANGED <<fileVars, mainVars, updaterVars, funcVars>>

\* if extraction_success: is_valid, reason = is_valid_asin(extracted_asin);
\* for a valid one, asin_len = len(final_asin) and link = generate_link(final_asin)
CheckExtracted ==
    /\ sPc = "extracted"
    /\ sExt.r.ok
    /\ LET r == is_valid_asin(Str(sExt.r.asin))
       IN  sChk' = [done |-> TRUE, valid |-> r.valid,
                    len |-> Len(sExt.r.asin),
                    link |-> IF r.valid THEN generate_link(Str(sExt.r.asin)) ELSE <<>>]
    /\ sPc' = "checked"
    /\ UNCHANGED <<sParts, sIn, sExt, sVal, sLink>>
    /\ UNCHANGED <<fileVars, mainVars, updaterVars, funcVars>>

\* is_valid_asin applied to the input itself
Validate ==
    /\ sPc \in {"extracted", "checked"}
    /\ sPc = "extracted" => ~sExt.r.ok
    /\ sVal' = [done |-> TRUE, r |-> is_valid_asin(sIn)]
    /\ sPc' = "validated"
    /\ UNCHANGED <<sParts, sIn, sExt, sLink, sChk>>
    /\ UNCHANGED <<fileVars, mainVars, updaterVars, funcVars>>

\* generate_link applied to the input itself
Link ==
    /\ sPc = "validated"
    /\ sLink' = [done |-> TRUE, r |-> generate_link(sIn)]
    /\ sPc' = "linked"
    /\ UNCHANGED <<sParts, sIn, sExt, sVal, sChk>>
    /\ UNCHANGED <<fileVars, mainVars, updaterVars, funcVars>>

NextScraper == Extract \/ CheckExtracted \/ Validate \/ Link

SpecScraper == InitScraper /\ [][NextScraper]_vars

(***************************************************************************)
(* The store file specification: process_store_file reads the rows of a    *)
(* store file one by one and puts each in one of its two lists.            *)
(***************************************************************************)
InitStoreFile ==
    /\ sPc = "file"
    /\ sParts = NoParts
    /\ sIn = Str(<<>>)
    /\ sExt = NotRun
    /\ sVal = NotRun
    /\ sLink = NotRun
    /\ sChk = NotRun
    /\ NoFileOutput
    /\ MainIdle
    /\ UpdaterIdle
    /\ FuncIdle

\* the record of a resolved row; STORE NAME, and the empty STOCK and POSTED
\* PRICE, are left out.  row is the position of the row in the file.
ValidRecord(row, sku, final_asin) ==
    [row |-> row, SKU |-> sku, ASIN |-> final_asin, LEN |-> Len(final_asin),
     LINKS |-> generate_link(Str(final_asin))]

\* the record of a row for manual review
InvalidRecord(row, sku) == [row |-> row, SKU |-> sku]

\* a placement that takes every row as resolved
IsResolved_Always(final_asin) == TRUE

\* if final_asin != '': the row is resolved, else it goes to manual review
IsResolved(final_asin) == final_asin # <<>>

\* the body of the row loop for the SKU cell sku_raw built from parts
PlaceRow(parts, sku_raw) ==
    LET sku == convert_to_string(sku_raw)
        e == extract_asin_from_sku(Str(sku))
        v == is_valid_asin(Str(e.asin))
        final_asin == IF e.ok /\ v.valid THEN e.asin ELSE <<>>
    IN  /\ sParts' = parts
        /\ sIn' = sku_raw
        /\ sExt' = [done |-> TRUE, r |-> e]
        /\ sChk' = IF e.ok
                   THEN [done |-> TRUE, valid |-> v.valid, len |-> Len(e.asin),
                         link |-> IF v.valid THEN generate_link(Str(e.asin)) ELSE <<>>]
                   ELSE NotRun
        /\ sRow' = sRow + 1
        /\ verification_stats' =
              IF IsResolved(final_asin)
              THEN [verification_stats EXCEPT !.extracted_from_sku = @ + 1]
              ELSE [verification_stats EXCEPT !.no_asin = @ + 1]
        /\ valid_data' = IF IsResolved(final_asin)
                         THEN Append(valid_data, ValidRecord(sRow + 1, sku, final_asin))
                         ELSE valid_data
        /\ invalid_data' = IF IsResolved(final_asin)
                           THEN invalid_data
                           ELSE Append(invalid_data, InvalidRecord(sRow + 1, sku))
        /\ UNCHANGED <<sPc, sVal, sLink>>
        /\ UNCHANGED <<mainVars, updaterVars, funcVars>>

\* for idx, row in df.iterrows(): one row of the store file
ProcessSku ==
    /\ sPc = "file"
    /\ sRow < MaxFileRows
    /\ \/ \E p \in FileParts \cup FileIdParts : PlaceRow(p, Str(Assemble(p)))
       \/ \E c \in {NaNValue, NumValue, Str(<<>>), Str(SciText)} : PlaceRow(NoParts, c)

\* the file has no more rows: the two lists are returned
FinishFile ==
    /\ sPc = "file"
    /\ sPc' = "returned"
    /\ UNCHANGED <<sParts, sIn, sExt, sVal, sLink, sChk, fileVars>>
    /\ UNCHANGED <<mainVars, updaterVars, funcVars>>

NextStoreFile == ProcessSku \/ FinishFile

SpecStoreFile == InitStoreFile /\ [][NextStoreFile]_vars

(***************************************************************************)
(* The scrape run specification: main() of the scraper takes the names of  *)
(* STORE_FILES in order, processes the input file of each and writes one   *)
(* workbook at the end.  A row of an input file is the answer of the row   *)
(* loop for it: TRUE when the row is resolved.                             *)
(***************************************************************************)
STORE_FILES == <<"MMS", "MZM", "TSS", "GG", "GGL", "AMH">>

\* the names of STORE_FILES the run takes
MaxFiles == 2

StoreFiles == [i \in 1..MaxFiles |-> IF i <= Len(STORE_FILES) THEN STORE_FILES[i] ELSE "S"]

FileRows == UNION {[1..n -> BOOLEAN] : n \in 0..MaxFileRows}

InputFiles ==
    {NoInputFile, [found |-> TRUE, sku_column |-> FALSE, rows |-> <<>>]}
        \cup [found : {TRUE}, sku_column : {TRUE}, rows : FileRows]

\* pd.DataFrame(data) if data else None, for the n records of a store
Frame(store_name, n) == IF n > 0 THEN [store |-> store_name, n |-> n] ELSE NoFrame

\* what process_store_file returns: None, None for a file without a 'sku'
\* column, else valid_df, invalid_df, verification_stats
process_store_file(store_name, file) ==
    IF ~file.sku_column
    THEN <<NoFrame, NoFrame>>
    ELSE <<Frame(store_name, Cardinality({i \in DOMAIN file.rows : file.rows[i]})),
           Frame(store_name, Cardinality({i \in DOMAIN file.rows : ~file.rows[i]})),
           [extracted_from_sku |-> Cardinality({i \in DOMAIN file.rows : file.rows[i]}),
            no_asin |-> Cardinality({i \in DOMAIN file.rows : ~file.rows[i]})]>>

RECURSIVE FrameRows(_)
\* len(pd.concat(frames))
FrameRows(frames) ==
    IF frames = <<>> THEN 0 ELSE frames[1].n + FrameRows(Tail(frames))

InitScrapeRun ==
    /\ sPc = "idle"
    /\ sParts = NoParts
    /\ sIn = Str(<<>>)
    /\ sExt = NotRun
    /\ sVal = NotRun
    /\ sLink = NotRun
    /\ sChk = NotRun
    /\ NoFileOutput
    /\ mPc = "files"
    /\ file_pos = 0
    /\ cur_file = NoInputFile
    /\ all_valid_data = <<>>
    /\ all_invalid_data = <<>>
    /\ files_processed = 0
    /\ output = NoOutput
    /\ UpdaterIdle
    /\ FuncIdle

\* for store_name in STORE_FILES: one pass of the loop body
TakeStoreFile ==
    /\ mPc = "files"
    /\ file_pos < MaxFiles
    /\ \E file \in InputFiles :
          LET store_name == StoreFiles[file_pos + 1]
              result == process_store_file(store_name, file)
          IN  /\ cur_file' = file
              /\ IF ~file.found
                 THEN /\ file_pos' = file_pos + 1
                      /\ UNCHANGED <<mPc, all_valid_data, all_invalid_data, files_processed>>
                 ELSE IF Len(result) # 3
                 THEN \* the three names cannot be bound: ValueError leaves main()
                      /\ mPc' = "raised"
                      /\ UNCHANGED <<file_pos, all_valid_data, all_invalid_data,
                                     files_processed>>
                 ELSE /\ all_valid_data' = IF result[1] # NoFrame
                                           THEN Append(all_valid_data, result[1])
                                           ELSE all_valid_data
                      /\ all_invalid_data' = IF result[2] # NoFrame
                                             THEN Append(all_invalid_data, result[2])
                                             ELSE all_invalid_data
                      /\ files_processed' = files_processed + 1
                      /\ file_pos' = file_pos + 1
                      /\ UNCHANGED mPc
    /\ UNCHANGED <<sPc, sParts, sIn, sExt, sVal, sLink, sChk, fileVars, output>>
    /\ UNCHANGED <<updaterVars, funcVars>>

\* after the loop: if all_valid_data or all_invalid_data: write the workbook
WriteOutput ==
    /\ mPc = "files"
    /\ file_pos = MaxFiles
    /\ IF all_valid_data # <<>> \/ all_invalid_data # <<>>
       THEN /\ output' = [written |-> TRUE, Data |-> FrameRows(all_valid_data),
                          Review |-> FrameRows(all_invalid_data)]
            /\ mPc' = "written"
       ELSE /\ mPc' = "nodata"
            /\ UNCHANGED output
    /\ UNCHANGED <<file_pos, cur_file, all_valid_data, all_invalid_data, files_processed>>
    /\ UNCHANGED <<sPc, sParts, sIn, sExt, sVal, sLink, sChk, fileVars>>
    /\ UNCHANGED <<updaterVars, funcVars>>

NextScrapeRun == TakeStoreFile \/ WriteOutput

SpecScrapeRun == InitScrapeRun /\ [][NextScrapeRun]_vars

(***************************************************************************)
(* The validation specification: validate_inventory_update is called once  *)
(* with an expected inventory, while the listing holds inventory inv and   *)
(* the re-reads find it or not as reads says.                              *)
(***************************************************************************)
Inventories == 0..2

InitValidate ==
    /\ fPc = "call"
    /\ fIn \in [reads : ReadSeqs, inv : Inventories, expected : Inventories]
    /\ fOut = <<>>
    /\ ScraperIdle
    /\ UpdaterIdle

\* validate_inventory_update(sku, expected_inventory, ...)
ValidateCall ==
    /\ fPc = "call"
    /\ fOut' = validate_inventory_update(fIn.reads, fIn.inv, fIn.expected)
    /\ fPc' = "returned"
    /\ UNCHANGED <<fIn, scraperVars, updaterVars>>

NextValidate == ValidateCall

SpecValidate == InitValidate /\ [][NextValidate]_vars

(***************************************************************************)
(* The store name specification: normalize_store_name is called on the     *)
(* STORES NAME cell of a row.                                              *)
(***************************************************************************)
\* the keys of STORES, in the order of the dictionary
STORES ==
    << <<"T", "S", "S">>, <<"G", "G", "L">>, <<"M", "M", "S">>,
       <<"M", "Z", "M">>, <<"G", "G">>, <<"A", "M", "H">> >>

\* str.upper() on the letters the store names are written with
UpperChar(c) ==
    CASE c = "g" -> "G"
      [] c = "l" -> "L"
      [] c = "s" -> "S"
      [] c = "t" -> "T"
      [] OTHER -> c

upper(s) == [i \in 1..Len(s) |-> UpperChar(s[i])]

\* sub in s, for two str
Contains(sub, s) ==
    \E i \in 0..(Len(s) - Len(sub)) : SubSeq(s, i + 1, i + Len(sub)) = sub

\* return None
NoStore == [found |-> FALSE, key |-> <<>>]

normalize_store_name(store_name) ==
    IF store_name.kind = "nan" THEN NoStore
    ELSE LET name == upper(strip(store_name.s))
             partial == {k \in 1..Len(STORES) :
                            Contains(STORES[k], name) \/ Contains(name, STORES[k])}
         IN  IF \E k \in 1..Len(STORES) : STORES[k] = name
             THEN [found |-> TRUE, key |-> name]
             ELSE IF partial # {}
             THEN [found |-> TRUE, key |-> STORES[MinOf(partial)]]
             ELSE NoStore

\* the texts of a STORES NAME cell, before padding
StoreNameTexts ==
    {<<>>, <<"G", "G">>, <<"g", "g">>, <<"G", "G", "L">>, <<"g", "g", "l">>,
     <<"T", "S", "S">>, <<"T", "s", "s">>, <<"M", "M", "S">>, <<"M", "Z", "M">>,
     <<"A", "M", "H">>, <<"G">>, <<"S">>, <<"X">>, <<"X", "G", "G">>,
     <<"G", "G", "L", "2">>, <<"G", " ", "G">>, <<"T", "S">>}

StoreNamePads == {<<>>, <<" ">>, <<"LF">>}

StoreNameCells ==
    {NaNValue} \cup {Str(l \o t \o r) : l \in StoreNamePads, t \in StoreNameTexts,
                                        r \in StoreNamePads}

InitStoreName ==
    /\ fPc = "call"
    /\ fIn \in StoreNameCells
    /\ fOut = <<>>
    /\ ScraperIdle
    /\ UpdaterIdle

\* df['NORMALIZED_STORE'] = df['STORES NAME'].apply(normalize_store_name)
NormalizeStoreName ==
    /\ fPc = "call"
    /\ fOut' = normalize_store_name(fIn)
    /\ fPc' = "returned"
    /\ UNCHANGED <<fIn, scraperVars, updaterVars>>

NextStoreName == NormalizeStoreName

SpecStoreName == InitStoreName /\ [][NextStoreName]_vars

(***************************************************************************)
(* The updater specification: one script processes the stores of a         *)
(* spreadsheet one after the other, and the rows of a store against one    *)
(* listing of that store.                                                  *)
(***************************************************************************)
\* The Price Variance Updater runs in fast mode: the slow mode differs only at
\* every VALIDATE_EVERY_N-th inventory update of a store, which no store of
\* MaxRows rows reaches.
Init ==
    /\ script \in Scripts
    /\ fast_mode = TRUE
    /\ pc = IF script = "RU" THEN "loop" ELSE "store"
    /\ remote \in (IF script = "RU" THEN InitRemotes ELSE {NoListing})
    /\ stats = ZeroStats
    /\ update_count = 0
    /\ price_variance_data = <<>>
    /\ calls = <<>>
    /\ last = NoLast
    /\ store = IF script = "RU" THEN 1 ELSE 0
    /\ overall_stats = ZeroStats
    /\ saved = NoFile
    /\ ScraperIdle
    /\ FuncIdle

\* the rows processed so far in the run
RowsSoFar == IF script = "RU" THEN stats.total ELSE overall_stats.total

\* overall_stats after a row that takes stats to st: every stats[...] += 1 of
\* the multi-store scripts comes with its overall_stats[...] += 1 (total_rows,
\* total_errors and total_not_found are kept under the names of stats); the
\* Reverb Updater has no overall_stats
Tally(st) ==
    IF script = "RU" THEN overall_stats
    ELSE [f \in DOMAIN overall_stats |-> overall_stats[f] + st[f] - stats[f]]

\* a row ends (continue, or the end of the loop body)
RowEnds(st, rem, cl, lst) ==
    /\ stats' = st
    /\ overall_stats' = Tally(st)
    /\ remote' = rem
    /\ calls' = cl
    /\ last' = lst
    /\ pc' = "row"
    /\ UNCHANGED <<script, fast_mode, store, saved, scraperVars, funcVars>>

\* an exception leaves the row loop and main(): the run ends
RowAborts(st, cl, lst) ==
    /\ stats' = st
    /\ overall_stats' = Tally(st)
    /\ calls' = cl
    /\ last' = lst
    /\ pc' = "aborted"
    /\ UNCHANGED <<script, fast_mode, remote, store, saved, scraperVars, funcVars>>

\* the rows that end before any decision: invalid SKU, listing not found
InvalidSku(row) ==
    /\ row.sku = "blank"
    /\ RowEnds(Inc(Inc(stats, "total"), "errors"), remote, <<>>,
               RowLocals("invalid_sku", row, 0, 0, None, None, Len(price_variance_data)))

NotFound(row) ==
    /\ row.sku = "ok"
    /\ FALSE \in FetchOutcomes(remote)
    /\ RowEnds(Inc(Inc(stats, "total"), "not_found"), remote, <<Get(FALSE)>>,
               RowLocals("not_found", row, 0, 0, None, None, Len(price_variance_data)))

\* calculate_inventory(stock) raises on a found listing
InventoryRaises(row) ==
    /\ row.sku = "ok"
    /\ TRUE \in FetchOutcomes(remote)
    /\ IntRaises(ParseStock(row.stock))
    /\ RowAborts(Inc(stats, "total"), <<Get(TRUE)>>,
                 RowLocals("aborted", row, remote.inv, 0, ParsePrice(row.price), None,
                           Len(price_variance_data)))

\* Multi Store Inventory Updater: the body of the row loop
RowMSI(row) ==
    /\ UNCHANGED <<update_count, price_variance_data>>
    /\ \/ InvalidSku(row)
       \/ NotFound(row)
       \/ InventoryRaises(row)
       \/ /\ row.sku = "ok"
          /\ TRUE \in FetchOutcomes(remote)
          /\ ~IntRaises(ParseStock(row.stock))
          /\ LET target == calculate_inventory(ParseStock(row.stock))
             IN  \E o \in InventoryTask(Inc(stats, "total"), remote, target) :
                    RowEnds(o.stats, o.remote, <<Get(TRUE)>> \o o.calls,
                            RowLocals("found", row, remote.inv, target, None, None, 0))

\* Multi Store Inventory Updater: for idx, row in the rows of the store
ProcessRowMSI ==
    /\ script = "MSI" /\ pc = "loop" /\ RowsSoFar < MaxRows
    /\ \E row \in RowsMSI : RowMSI(row)

\* MSPI and RU: TASK 1 then TASK 2 on a found listing
InventoryThenPrice(row, target) ==
    LET posted == ParsePrice(row.price)
    IN  \E o \in InventoryTask(Inc(stats, "total"), remote, target) :
          \E q \in PriceTask(script, o.stats, o.remote, posted) :
             RowEnds(q.stats, q.remote, <<Get(TRUE)>> \o o.calls \o q.calls,
                     RowLocals("found", row, remote.inv, target, posted,
                               IF remote.price.k = "num" THEN Some(remote.price.v) ELSE None,
                               0))

\* Multi Store Price and Inventory Updater: the body of the row loop
RowMSPI(row) ==
    /\ UNCHANGED <<update_count, price_variance_data>>
    /\ \/ InvalidSku(row)
       \/ NotFound(row)
       \/ InventoryRaises(row)
       \/ /\ row.sku = "ok"
          /\ TRUE \in FetchOutcomes(remote)
          /\ ~IntRaises(ParseStock(row.stock))
          /\ InventoryThenPrice(row, calculate_inventory(ParseStock(row.stock)))

\* Multi Store Price and Inventory Updater: for idx, row in the rows of the store
ProcessRowMSPI ==
    /\ script = "MSPI" /\ pc = "loop" /\ RowsSoFar < MaxRows
    /\ \E row \in RowsMSPI : RowMSPI(row)

\* Reverb Updater: the body of the row loop
RowRU(row) ==
    /\ UNCHANGED <<update_count, price_variance_data>>
    /\ \/ InvalidSku(row)
       \/ NotFound(row)
       \/ /\ row.sku = "ok"
          /\ TRUE \in FetchOutcomes(remote)
          /\ InventoryThenPrice(row, calculate_inventory_RU(ParseStock(row.stock)))

\* Reverb Updater: for idx, row in the rows of the store
ProcessRowRU ==
    /\ script = "RU" /\ pc = "loop" /\ RowsSoFar < MaxRows
    /\ \E row \in RowsRU : RowRU(row)

\* Price Variance Updater: the body of the row loop.  The amount of the
\* listing's price goes through float() outside any try: when it does not
\* parse, the ValueError leaves main() and the run ends.
RowPVU(row) ==
    \/ InvalidSku(row) /\ UNCHANGED <<update_count, price_variance_data>>
    \/ NotFound(row) /\ UNCHANGED <<update_count, price_variance_data>>
    \/ InventoryRaises(row) /\ UNCHANGED <<update_count, price_variance_data>>
    \/ /\ row.sku = "ok"
       /\ TRUE \in FetchOutcomes(remote)
       /\ ~IntRaises(ParseStock(row.stock))
       /\ LET target == calculate_inventory(ParseStock(row.stock))
              posted == ParsePrice(row.price)
              before == Len(price_variance_data)
              st0 == Inc(stats, "total")
          IN  IF PostedPriceUsable(posted) /\ remote.price.k = "bad"
              THEN /\ RowAborts(st0, <<Get(TRUE)>>,
                                RowLocals("aborted", row, remote.inv, target,
                                          posted, None, before))
                   /\ UNCHANGED <<update_count, price_variance_data>>
              ELSE LET d == IF PostedPriceUsable(posted)
                            THEN PriceDecision(posted.v, remote.price.v)
                            ELSE NoPriceDecision
                       st1 == IncIf(st0, d.no_change, "price_skipped_no_change")
                   IN  /\ price_variance_data' =
                              IF d.add_to_review
                              THEN Append(price_variance_data,
                                          ReviewRecord(remote.price.v, posted.v, d))
                              ELSE price_variance_data
                       /\ \E o \in CombinedUpdate(st1, remote, update_count,
                                                  fast_mode, target, posted, d) :
                             /\ update_count' = o.update_count
                             /\ RowEnds(o.stats, o.remote, <<Get(TRUE)>> \o o.calls,
                                        RowLocals("found", row, remote.inv, target,
                                                  posted,
                                                  IF PostedPriceUsable(posted)
                                                  THEN Some(remote.price.v) ELSE None,
                                                  before))

\* Price Variance Updater: for idx, row in store_data.iterrows()
ProcessRowPVU ==
    /\ script = "PVU" /\ pc = "loop" /\ RowsSoFar < MaxRows
    /\ \E row \in Rows : RowPVU(row)

\* time.sleep(DELAY_PER_PRODUCT), or continue: on to the next row
NextRow ==
    /\ pc = "row"
    /\ pc' = "loop"
    /\ calls' = <<>>
    /\ last' = NoLast
    /\ UNCHANGED <<script, fast_mode, remote, stats, update_count, price_variance_data,
                   store, overall_stats, saved, scraperVars, funcVars>>

\* the store has no more rows: store completion.  A store of the multi-store
\* scripts is a group of df.groupby, which has a row or more.  The Price
\* Variance Updater saves the review file here when there is a record to save.
EndOfRows ==
    /\ pc = "loop"
    /\ script = "RU" \/ stats.total >= 1
    /\ pc' = "store"
    /\ saved' = IF script = "PVU" THEN SaveAfterStore(saved, price_variance_data)
                                  ELSE saved
    /\ UNCHANGED <<script, fast_mode, remote, stats, update_count, price_variance_data,
                   calls, last, store, overall_stats, scraperVars, funcVars>>

\* for store_name, store_data in grouped: the next store starts, with its own
\* counters and its own listings
NextStore ==
    /\ pc = "store" /\ script # "RU" /\ store < MaxStores
    /\ store' = store + 1
    /\ stats' = ZeroStats
    /\ update_count' = 0
    /\ remote' \in InitRemotes
    /\ pc' = "loop"
    /\ UNCHANGED <<script, fast_mode, price_variance_data, calls, last, overall_stats,
                   saved, scraperVars, funcVars>>

\* the next store has no API token: continue
SkipStore ==
    /\ pc = "store" /\ script # "RU" /\ store < MaxStores
    /\ store' = store + 1
    /\ UNCHANGED <<script, fast_mode, pc, remote, stats, update_count,
                   price_variance_data, calls, last, overall_stats, saved, scraperVars, funcVars>>

\* the last store is done: the final summary.  The Price Variance Updater
\* saves the review file once more, records or not.
EndOfRun ==
    /\ pc = "store" /\ store >= 1
    /\ pc' = "done"
    /\ saved' = IF script = "PVU" THEN save_price_variance_review(price_variance_data)
                                  ELSE saved
    /\ UNCHANGED <<script, fast_mode, remote, stats, update_count, price_variance_data,
                   calls, last, store, overall_stats, scraperVars, funcVars>>

Next ==
    \/ ProcessRowMSI
    \/ ProcessRowMSPI
    \/ ProcessRowPVU
    \/ ProcessRowRU
    \/ NextRow
    \/ EndOfRows
    \/ NextStore
    \/ SkipStore
    \/ EndOfRun

Spec == Init /\ [][Next]_vars

(***************************************************************************)
(* The cadence specification: the Price Variance Updater, with FAST_MODE   *)
(* on or off, over stores with rows enough for update_count to reach       *)
(* VALIDATE_EVERY_N.  The rows carry a stock and no price.                 *)
(***************************************************************************)
\* the rows of a store in a cadence run
MaxCadenceRows == 5

CadenceRows == [sku : {"ok"}, stock : {MissingCell, NumCell(3)}, price : {MissingCell}]

\* the stores of a cadence run: the second one shows update_count starting again
CadenceStores == {1, 2}

CadenceRemotes == {[exists |-> TRUE, inv |-> 0, price |-> NumPrice(100)]}

InitCadence ==
    /\ script = "PVU"
    /\ fast_mode \in BOOLEAN
    /\ pc = "store"
    /\ remote = NoListing
    /\ stats = ZeroStats
    /\ update_count = 0
    /\ price_variance_data = <<>>
    /\ calls = <<>>
    /\ last = NoLast
    /\ store = 0
    /\ overall_stats = ZeroStats
    /\ saved = NoFile
    /\ ScraperIdle
    /\ FuncIdle

\* for idx, row in store_data.iterrows()
CadenceRow ==
    /\ script = "PVU" /\ pc = "loop" /\ stats.total < MaxCadenceRows
    /\ \E row \in CadenceRows : RowPVU(row)

\* for store_name, store_data in grouped: stats and update_count start again
CadenceNextStore ==
    /\ pc = "store" /\ store + 1 \in CadenceStores
    /\ store' = store + 1
    /\ stats' = ZeroStats
    /\ update_count' = 0
    /\ remote' \in CadenceRemotes
    /\ pc' = "loop"
    /\ UNCHANGED <<script, fast_mode, price_variance_data, calls, last, overall_stats,
                   saved, scraperVars, funcVars>>

NextCadence ==
    \/ CadenceRow
    \/ NextRow
    \/ EndOfRows
    \/ CadenceNextStore
    \/ EndOfRun

SpecCadence == InitCadence /\ [][NextCadence]_vars

(***************************************************************************)
(* The second pass specification: a script processes a row of a listing,   *)
(* and then the same row once more.  fIn keeps the row, the remote calls   *)
(* of its first pass and the listing as the first pass left it.            *)
(***************************************************************************)
InitRerun ==
    /\ script \in Scripts
    /\ fast_mode = TRUE
    /\ pc = "loop"
    /\ remote \in InitRemotes
    /\ stats = ZeroStats
    /\ update_count = 0
    /\ price_variance_data = <<>>
    /\ calls = <<>>
    /\ last = NoLast
    /\ store = 1
    /\ overall_stats = ZeroStats
    /\ saved = NoFile
    /\ ScraperIdle
    /\ fPc = "first"
    /\ fIn = <<>>
    /\ fOut = <<>>

\* the body of the row loop of the script that runs
RowOf(row) ==
    \/ script = "MSI" /\ RowMSI(row)
    \/ script = "MSPI" /\ RowMSPI(row)
    \/ script = "PVU" /\ RowPVU(row)
    \/ script = "RU" /\ RowRU(row)

\* the rows the script that runs reads
RowsOf(scr) ==
    IF scr = "MSI" THEN RowsMSI
    ELSE IF scr = "MSPI" THEN RowsMSPI
    ELSE IF scr = "RU" THEN RowsRU
    ELSE Rows

\* the row is processed for the first time
FirstPass ==
    /\ pc = "loop" /\ fPc = "first"
    /\ \E row \in RowsOf(script) : RowOf(row)

\* the row comes up again, in the same run or in a later one
SameRowAgain ==
    /\ pc = "row" /\ fPc = "first"
    /\ fPc' = "again"
    /\ fIn' = [row |-> last.row, kind |-> last.kind, calls |-> calls, remote |-> remote]
    /\ pc' = "loop"
    /\ calls' = <<>>
    /\ last' = NoLast
    /\ UNCHANGED <<script, fast_mode, remote, stats, update_count, price_variance_data,
                   store, overall_stats, saved, scraperVars, fOut>>

\* the row is processed for the second time
SecondPass ==
    /\ pc = "loop" /\ fPc = "again"
    /\ RowOf(fIn.row)

NextRerun == FirstPass \/ SameRowAgain \/ SecondPass

SpecRerun == InitRerun /\ [][NextRerun]_vars

(***************************************************************************)
(* Properties of the identifier functions (SpecScraper).                   *)
(* The SKU form is read off sParts, the parts the input was put together   *)
(* from, not off the matcher of the model.                                 *)
(***************************************************************************)
\* CODE is 10 alphanumeric characters with at least one letter
ClaimCode10(code) ==
    /\ Len(code) = 10
    /\ \A i \in 1..Len(code) : code[i] \in AsciiAlnum
    /\ \E i \in 1..Len(code) : code[i] \in AsciiLetters

\* CODE is 12 decimal digits
ClaimCode12(code) ==
    /\ Len(code) = 12
    /\ \A i \in 1..Len(code) : code[i] \in ReDigitChars

\* PREFIX-CODE-SUFFIX with an alphabetic prefix, a hyphen on both sides of the
\* code and a suffix out of sufs; whitespace around it is not looked at here
SkuForm(p, sufs) ==
    /\ p.pre # <<>>
    /\ \A i \in 1..Len(p.pre) : p.pre[i] \in AsciiLetters
    /\ p.sep1 = <<"-">>
    /\ p.sep2 = <<"-">>
    /\ p.suf \in sufs
    /\ ClaimCode10(p.code) \/ ClaimCode12(p.code)

Unpadded(p) == p.padL = <<>> /\ p.padR = <<>>

\* the suffixes the extractor takes: New and N, with the first letter in either case
AcceptedSuffixes == {<<"N", "e", "w">>, <<"n", "e", "w">>, <<"N">>, <<"n">>}

\* CODE[h..] + CODE[..h-1] for a code of 2h characters, written out slice by slice
SecondThenFirst(code) ==
    LET h == Len(code) \div 2
    IN  [i \in 1..Len(code) |-> IF i <= h THEN code[h + i] ELSE code[i - h]]

\* C1: for every SKU PREFIX-CODE-SUFFIX (suffix New or N) whose code is 10
\* alphanumeric characters with a letter, extract_asin_from_sku returns
\* (CODE[5..9] + CODE[0..4], True); for a code of 12 digits it returns
\* (CODE[6..11] + CODE[0..5], True).  The characters inside a half keep their order.
C1_SwapsHalves ==
    (sExt.done /\ Unpadded(sParts) /\ SkuForm(sParts, {SufNew, SufN}))
        => sExt.r = [asin |-> SecondThenFirst(sParts.code), ok |-> TRUE]

C1_Witness ==
    /\ sExt.done
    /\ sParts.pre = <<"M", "Z", "M">>
    /\ sParts.code = <<"4", "K", "T", "C", "X", "B", "0", "C", "Y", "Z">>
    /\ sParts.suf = SufNew
    /\ sExt.r = [asin |-> <<"B", "0", "C", "Y", "Z", "4", "K", "T", "C", "X">>, ok |-> TRUE]

\* C2 as stated: success if and only if the SKU itself has one of the two
\* shapes (suffix in any letter case); every other input gives ("", False).
C2_Original ==
    sExt.done =>
        /\ sExt.r.ok <=> (sIn.kind = "str" /\ Unpadded(sParts)
                          /\ SkuForm(sParts, CaseVariantsNew \cup CaseVariantsN))
        /\ ~sExt.r.ok => sExt.r = ExtractFailure

\* C2: extract_asin_from_sku reports success if and only if the input is a
\* string that, once the whitespace around it is removed, has the 10-character
\* shape with a letter in the code or the 12-digit shape, with the suffix New,
\* new, N or n; every other input gives exactly ("", False).
C2_SuccessIffShape ==
    sExt.done =>
        /\ sExt.r.ok <=> (sIn.kind = "str" /\ SkuForm(sParts, AcceptedSuffixes))
        /\ ~sExt.r.ok => sExt.r = ExtractFailure

\* a 10-character all-digit code in an otherwise well-formed SKU is refused
C2_Witness ==
    /\ sExt.done
    /\ sParts.pre = <<"M", "Z", "M">>
    /\ sParts.sep1 = <<"-">> /\ sParts.sep2 = <<"-">>
    /\ sParts.code = <<"1", "2", "3", "4", "5", "1", "2", "3", "4", "5">>
    /\ sParts.suf = SufNew
    /\ sExt.r = ExtractFailure

\* C3 as stated: every letter-case variant of the suffix New and of the suffix
\* N succeeds, with the same identifier.
C3_Original ==
    (sExt.done /\ Unpadded(sParts)
       /\ SkuForm(sParts, CaseVariantsNew \cup CaseVariantsN))
        => sExt.r = [asin |-> SecondThenFirst(sParts.code), ok |-> TRUE]

\* C3: only the first letter of the suffix is matched in either case: for every
\* valid prefix and code the suffixes New, new, N and n succeed with the same
\* identifier, and the variants of New with an upper-case E or W give ("", False).
C3_FirstLetterCase ==
    (sExt.done /\ Unpadded(sParts))
        => /\ SkuForm(sParts, AcceptedSuffixes)
                => sExt.r = [asin |-> SecondThenFirst(sParts.code), ok |-> TRUE]
           /\ SkuForm(sParts, CaseVariantsNew \ AcceptedSuffixes)
                => sExt.r = ExtractFailure

C3_Witness ==
    /\ sExt.done
    /\ sParts.suf = <<"n", "e", "w">>
    /\ sParts.code = <<"4", "K", "T", "C", "X", "B", "0", "C", "Y", "Z">>
    /\ sExt.r.ok
    /\ sExt.r.asin = <<"B", "0", "C", "Y", "Z", "4", "K", "T", "C", "X">>

\* C4: whenever extract_asin_from_sku returns (id, True), is_valid_asin(id) is
\* valid and id has 10 or 12 characters.
C4_ExtractedIsValid == sChk.done => (sChk.valid /\ sChk.len \in {10, 12})

C4_Witness == sChk.done /\ sChk.valid /\ sChk.len = 12 /\ sChk.link # <<>>

\* an identifier of 10 characters with at least one letter
TenWithLetter(id) == Len(id) = 10 /\ \E i \in 1..Len(id) : id[i] \in IsAlphaChars

\* an identifier of 12 digits
TwelveDigits(id) == Len(id) = 12 /\ \A i \in 1..Len(id) : id[i] \in IsDigitChars

\* the link the rule gives for the identifier id
LinkFor(id) ==
    IF TenWithLetter(id) THEN <<"https://www.amazon.com/dp/">> \o id
    ELSE IF TwelveDigits(id) THEN <<"https://www.ebay.com/itm/">> \o id
    ELSE <<>>

\* the text of a value with the whitespace at both ends dropped, found from the
\* parts of the input: the padding is the only whitespace in it
Trimmed(p) == p.pre \o p.sep1 \o p.code \o p.sep2 \o p.suf

\* C5 as stated: the rule is applied to the identifier as given, so that length
\* and character mix are those of the whole input.
C5_Original ==
    sLink.done =>
        sLink.r = IF sIn.kind = "str" THEN LinkFor(sIn.s) ELSE <<>>

\* C5: generate_link applies the rule to the identifier with the whitespace
\* around it removed: the Amazon prefix plus the trimmed identifier when that
\* has 10 characters with a letter, the eBay prefix plus it when it is 12
\* digits, and the empty string for every other input.
C5_LinkOfTrimmed ==
    sLink.done =>
        sLink.r = IF sIn.kind = "str" THEN LinkFor(Trimmed(sParts)) ELSE <<>>

\* a padded identifier gets the link of its trimmed text
C5_Witness ==
    /\ sLink.done
    /\ sParts.padL = <<" ">>
    /\ sParts.pre = <<>>
    /\ sParts.code = <<"B", "0", "C", "Y", "Z", "4", "K", "T", "C", "X">>
    /\ sLink.r = <<"https://www.amazon.com/dp/",
                   "B", "0", "C", "Y", "Z", "4", "K", "T", "C", "X">>

\* C6 as stated: valid exactly when the identifier as given has length 10 with
\* a letter or length 12 of digits only.
C6_Original ==
    sVal.done =>
        sVal.r.valid <=> (sIn.kind = "str" /\ (TenWithLetter(sIn.s) \/ TwelveDigits(sIn.s)))

\* C6: is_valid_asin is valid exactly when the identifier, with the whitespace
\* around it removed, has length 10 with at least one letter or length 12 of
\* digits only; every other length or mix, and an empty or missing value, is
\* invalid.
C6_ValidOfTrimmed ==
    sVal.done =>
        sVal.r.valid <=> (sIn.kind = "str" /\ (TenWithLetter(Trimmed(sParts))
                                               \/ TwelveDigits(Trimmed(sParts))))

\* a 12-digit identifier followed by a space is valid
C6_Witness ==
    /\ sVal.done
    /\ sParts.padL = <<>> /\ sParts.padR = <<" ">>
    /\ sParts.pre = <<>>
    /\ Len(sParts.code) = 12
    /\ sVal.r = [valid |-> TRUE, reason |-> "Valid eBay ASIN"]

(***************************************************************************)
(* Properties of the update decisions (Spec).  They are read off the       *)
(* remote calls of the row (calls), the row's spreadsheet cells and        *)
(* locals (last) and the review records (price_variance_data).             *)
(***************************************************************************)
\* a PUT of the row carries a price / an inventory
PriceSent == \E i \in 1..Len(calls) : calls[i].op = "PUT" /\ calls[i].price.has

InventorySent == \E i \in 1..Len(calls) : calls[i].op = "PUT" /\ calls[i].inv.has

\* the row appended nothing to the review records
NoReviewAppended == Len(price_variance_data) = last.review_before

\* the posted price cell of the row is empty or not a number, or is zero or negative
PostedAbsentOrNotPositive == last.row.price.k # "num" \/ last.row.price.v <= 0

\* the row's listing was found and the row ran to its end
FoundRow == pc = "row" /\ last.kind = "found"

\* C7: Price Variance Updater, found row: when the posted price is absent, zero
\* or negative, or when abs(posted - remote) is 0, the update request carries no
\* price and no review record is appended.
C7_NoChangeCases ==
    (script = "PVU" /\ FoundRow)
        => ((PostedAbsentOrNotPositive
               \/ (last.reverb_price.has
                     /\ Abs(last.row.price.v - last.reverb_price.v) = 0))
              => (~PriceSent /\ NoReviewAppended))

\* a posted price equal to the remote price, while the inventory is sent
C7_Witness ==
    /\ script = "PVU" /\ FoundRow
    /\ last.row.price = NumCell(100)
    /\ last.reverb_price = Some(100)
    /\ InventorySent
    /\ ~PriceSent
    /\ stats.price_skipped_no_change = 1

\* C8: Price Variance Updater, found row with a positive posted price and
\* diff = abs(posted - remote): when diff >= 50 (50 included) the posted price
\* is put into the update request and one review record is appended, with
\* direction INCREASE if posted > remote and DECREASE otherwise; when
\* 0 < diff < 50 the price is put into the request and no record is appended.
\* Whether the remote accepts the request is not part of the statement.
C8_UpdateCases ==
    (script = "PVU" /\ FoundRow /\ last.row.price.k = "num" /\ last.row.price.v > 0)
        => LET posted == last.row.price.v
               current == last.reverb_price.v
               diff == Abs(posted - current)
           IN  /\ last.reverb_price.has
               /\ diff >= 50
                    => /\ PriceSent
                       /\ Len(price_variance_data) = last.review_before + 1
                       /\ price_variance_data[Len(price_variance_data)] =
                            [reverb_price |-> current, posted_price |-> posted,
                             difference |-> diff,
                             direction |-> IF posted > current THEN "INCREASE"
                                                               ELSE "DECREASE"]
               /\ (0 < diff /\ diff < 50) => (PriceSent /\ NoReviewAppended)
               /\ diff < 50 => NoReviewAppended

\* the boundary: posted 50 against remote 100 is flagged as a DECREASE
C8_Witness ==
    /\ script = "PVU" /\ FoundRow
    /\ last.row.price = NumCell(50)
    /\ last.reverb_price = Some(100)
    /\ PriceSent
    /\ Len(price_variance_data) = 1
    /\ price_variance_data[1].direction = "DECREASE"
    /\ price_variance_data[1].difference = 50

\* C9: MSPI and Reverb Updater, found row: a price apply is issued if and only
\* if the posted price is present and strictly greater than the remote price;
\* when posted <= remote none is issued, whatever the difference.
C9_RaiseOnly ==
    (script \in {"MSPI", "RU"} /\ FoundRow)
        => (PriceSent <=> (/\ last.row.price.k = "num"
                           /\ last.reverb_price.has
                           /\ last.row.price.v > last.reverb_price.v))

\* a raise from 100 to 150 is issued
C9_Witness ==
    /\ script = "MSPI" /\ FoundRow
    /\ last.row.price = NumCell(150)
    /\ last.reverb_price = Some(100)
    /\ PriceSent
    /\ remote.price = NumPrice(150)

\* C10: in every updater script, for a row whose listing was found, an
\* inventory value is sent to the remote if and only if the remote inventory
\* differs from the target inventory.
C10_InventoryIffDiffers ==
    (script \in Scripts /\ last.kind \in {"found", "aborted"})
        => (InventorySent <=> last.current_inventory # last.target_inventory)

(***************************************************************************)
(* Properties of the inventory policies (Spec).                            *)
(***************************************************************************)
\* the stock of the row in hand, as the script parsed it
RowStock == ParseStock(last.row.stock)

\* the largest integer not above a number given in halves
FloorOfHalves(h) == CHOOSE n \in -4..12 : 2 * n <= h /\ h < 2 * n + 2

ClampedFloor(stock) ==
    IF stock.nan THEN 0
    ELSE IF FloorOfHalves(stock.h) < 0 THEN 0 ELSE FloorOfHalves(stock.h)

IdentityScripts == {"MSI", "MSPI", "PVU"}

\* C11: in the multi-store scripts the target inventory of a row is
\* floor(stock) clamped to be at least 0, 0 for a missing or NaN stock, and
\* every inventory sent to the remote is a non-negative integer.
C11_ClampedFloor ==
    (script \in IdentityScripts /\ FoundRow)
        => /\ last.target_inventory = ClampedFloor(RowStock)
           /\ \A i \in 1..Len(calls) : calls[i].inv.has => calls[i].inv.v >= 0

\* the bucket of a stock: below 7 or NaN, 7 to 10, above 10
Bucket(stock) ==
    IF stock.nan THEN 0
    ELSE IF stock.inf THEN 2
    ELSE IF stock.h < 14 THEN 0
    ELSE IF stock.h <= 20 THEN 1
    ELSE 2

\* a <= b for two stocks that are not NaN
StockLeq(a, b) == b.inf \/ (~a.inf /\ a.h <= b.h)

\* C12: in the Reverb Updater the target inventory of a row is 0 for a stock
\* below 7 or missing/NaN, 1 for a stock from 7 to 10 and 2 for a stock above
\* 10; it is one of 0, 1, 2 and no smaller stock gets a larger inventory.
C12_Bucketed ==
    (script = "RU" /\ FoundRow)
        => /\ last.target_inventory = Bucket(RowStock)
           /\ last.target_inventory \in {0, 1, 2}
           /\ \A c \in StockCellsRU :
                 (~RowStock.nan /\ ~ParseStock(c).nan /\ StockLeq(ParseStock(c), RowStock))
                     => calculate_inventory_RU(ParseStock(c)) <= last.target_inventory

C12_Witness ==
    /\ script = "RU" /\ FoundRow
    /\ last.row.stock = NumCell(20)
    /\ last.target_inventory = 1
    /\ last.current_inventory = 0
    /\ InventorySent

(***************************************************************************)
(* Properties of the remote calls of a row (Spec).                         *)
(***************************************************************************)
\* the positions of the apply (PUT) calls of the row in hand
Puts == {i \in 1..Len(calls) : calls[i].op = "PUT"}

\* the positions of the lookups (GET) of the row in hand
Gets == {i \in 1..Len(calls) : calls[i].op = "GET"}

InventoryMustChange == last.current_inventory # last.target_inventory

\* the posted price is a positive number other than the listing's price
PriceMustChange ==
    /\ last.row.price.k = "num" /\ last.row.price.v > 0
    /\ last.reverb_price.has
    /\ last.row.price.v # last.reverb_price.v

\* C13: in the Price Variance Updater a row issues at most one PUT; its
\* payload has 'inventory' exactly when the inventory differs and 'price'
\* exactly when the price must change, both in the one request when both are
\* needed; there is no PUT when neither is needed.
C13_OneCombinedPut ==
    (script = "PVU" /\ last.kind \in {"found", "aborted"})
        => /\ Cardinality(Puts) <= 1
           /\ \A i \in Puts :
                 /\ calls[i].inv.has <=> InventoryMustChange
                 /\ calls[i].inv.has => calls[i].inv.v = last.target_inventory
                 /\ calls[i].price.has <=> PriceMustChange
                 /\ calls[i].price.has => calls[i].price.v = last.row.price.v
           /\ (~InventoryMustChange /\ ~PriceMustChange) => Puts = {}
           /\ (last.kind = "found" /\ (InventoryMustChange \/ PriceMustChange))
                 => Puts # {}

C13_Witness ==
    /\ script = "PVU" /\ FoundRow
    /\ InventoryMustChange /\ PriceMustChange
    /\ Cardinality(Puts) = 1
    /\ \A i \in Puts : calls[i].ok /\ calls[i].inv.has /\ calls[i].price.has
    /\ stats.combined_updates = last.stats_before.combined_updates + 1

\* the re-reads of the row in hand: the lookups after the first one
Rereads == {i \in Gets : i > 1}

C15_FailedApplyAbandonsRow ==
    pc = "row"
        => \A i \in Puts :
              ~calls[i].ok
                  => /\ stats.errors > last.stats_before.errors
                     /\ \A j \in Puts : j <= i

\* the verification of the row in hand failed: every re-read came back without
\* a listing or with an inventory other than the expected one
VerificationFailed ==
    /\ Rereads # {}
    /\ \A i \in Rereads : ~calls[i].ok \/ remote.inv # last.target_inventory

\* the PUTs of the row in hand that follow its first re-read
PutsAfterVerification == {i \in Puts : \E j \in Rereads : j < i}

VerificationCounted ==
    /\ stats.inventory_validation_failed =
          last.stats_before.inventory_validation_failed + 1
    /\ stats.inventory_validated = last.stats_before.inventory_validated
    /\ stats.inventory_updated = last.stats_before.inventory_updated + 1

\* C16 as stated: after a failed verification no PUT at all follows in the
\* row, the validation-failed counter is up by one and the row counts as
\* updated.
C16_Original ==
    VerificationFailed
        => (pc = "row" /\ PutsAfterVerification = {} /\ VerificationCounted)

\* C16: after a failed verification the inventory is not sent again, neither
\* the new value nor the old one; the validation-failed counter is up by one,
\* the row counts as updated and the run goes on.  The only PUT that can
\* follow in the row is the price PUT of the price step in MSPI and RU.
C16_FailedVerification ==
    VerificationFailed
        => /\ pc = "row"
           /\ VerificationCounted
           /\ Cardinality({i \in Puts : calls[i].inv.has}) = 1
           /\ \A i \in PutsAfterVerification :
                 /\ script \in {"MSPI", "RU"}
                 /\ ~calls[i].inv.has
                 /\ calls[i].price.has
           /\ Cardinality(PutsAfterVerification) <= 1

C16_Witness ==
    /\ script = "MSPI" /\ FoundRow
    /\ VerificationFailed
    /\ \E i \in Rereads : calls[i].ok
    /\ PutsAfterVerification # {}
    /\ stats.inventory_validation_failed = 1

(***************************************************************************)
(* Properties of the review file and of the order of the rows (Spec).      *)
(***************************************************************************)
IsPrefix(s, t) == Len(s) <= Len(t) /\ SubSeq(t, 1, Len(s)) = s

\* C17: in the Price Variance Updater the review file always holds a prefix
\* of the records accumulated in memory (records are only appended, and none
\* that was saved is lost, whatever happens in a later store); whenever a
\* store has finished the file holds exactly the records accumulated so far,
\* and so it does at the end of the run.
C17_FlushedAfterEachStore ==
    script = "PVU"
        => /\ IsPrefix(saved.records, price_variance_data)
           /\ pc = "store" => saved.records = price_variance_data
           /\ (pc = "store" /\ price_variance_data # <<>>) => saved.exists
           /\ pc = "done" => (saved.exists /\ saved.records = price_variance_data)

C17_Witness ==
    /\ script = "PVU" /\ store = 2 /\ pc \in {"row", "aborted"}
    /\ saved.exists
    /\ Len(saved.records) = 1
    /\ Len(price_variance_data) = 2

StockUnparseable == last.row.stock.k \in {"nan", "bad", "nantext"}

\* the row in hand has a cell that holds no number
StockMalformed == last.row.stock.k # "num"

PriceMalformed == last.row.price.k # "num"

\* C19: a malformed input row never halts the run.  A row with a blank SKU is
\* counted as an error and makes no remote call; a stock cell that is missing
\* or not a number gives stock 0; a price cell that is missing or not a number
\* gives no price and no price change; and the run goes on to the next row.
C19_MalformedRowNeverHalts ==
    last.kind # "none"
        => /\ last.row.sku = "blank"
                 => /\ last.kind = "invalid_sku"
                    /\ calls = <<>>
                    /\ stats.errors = last.stats_before.errors + 1
           /\ (last.row.sku = "ok" /\ StockUnparseable /\ calls[1].ok)
                 => last.target_inventory = 0
           /\ (last.row.sku = "ok" /\ PriceMalformed)
                 => /\ ~last.posted_price.has
                    /\ \A i \in Puts : ~calls[i].price.has
           /\ (last.row.sku = "blank" \/ StockMalformed \/ PriceMalformed)
                 => pc = "row"

(***************************************************************************)
(* Properties of the two lists of a store file (SpecStoreFile).            *)
(***************************************************************************)
\* the records of a list that stand for row k of the file
RecordsOf(data, k) == {i \in 1..Len(data) : data[i].row = k}

\* the row read last went to the resolved list
LastResolved == RecordsOf(valid_data, sRow) # {}

\* C20: every row of a store file is in exactly one of the two lists: in the
\* resolved list if and only if the extraction succeeded and the identifier
\* is valid, which is when the SKU has one of the two accepted shapes, else
\* in the manual-review list; every resolved record has a non-empty link and
\* a LEN equal to the length of its identifier; the two lists together have
\* as many records as rows were read.
C20_EveryRowInOneList ==
    sPc \in {"file", "returned"}
        => /\ \A k \in 1..sRow :
                 Cardinality(RecordsOf(valid_data, k))
                     + Cardinality(RecordsOf(invalid_data, k)) = 1
           /\ Len(valid_data) + Len(invalid_data) = sRow
           /\ \A i \in 1..Len(valid_data) :
                 /\ valid_data[i].ASIN # <<>>
                 /\ valid_data[i].LINKS # <<>>
                 /\ valid_data[i].LEN = Len(valid_data[i].ASIN)
           /\ sRow > 0
                 => /\ LastResolved <=> (sExt.r.ok /\ sChk.done /\ sChk.valid)
                    /\ LastResolved <=> (sIn.kind = "str" /\ SkuForm(sParts, AcceptedSuffixes))
                    /\ LastResolved
                          => \E i \in RecordsOf(valid_data, sRow) :
                                valid_data[i].ASIN = SecondThenFirst(sParts.code)

C20_Witness ==
    /\ sPc = "returned"
    /\ sRow = 2
    /\ Len(valid_data) = 1 /\ valid_data[1].row = 2 /\ valid_data[1].LEN = 12
    /\ Len(invalid_data) = 1 /\ invalid_data[1].row = 1
    /\ sIn = Str(<<" ">> \o valid_data[1].SKU)

(***************************************************************************)
(* Properties of the verification and of the remote price (Spec).          *)
(***************************************************************************)
AlwaysValidating == {"MSI", "MSPI", "RU"}

\* C21 as stated: in the always-validating scripts every PUT of a row that
\* succeeded is followed by a re-read in that row, and every re-read comes
\* after a PUT of the row that succeeded.
C21_Original ==
    (script \in AlwaysValidating /\ pc = "row")
        => /\ \A i \in Puts : calls[i].ok => \E j \in Rereads : j > i
           /\ \A j \in Rereads : \E i \in Puts : i < j /\ calls[i].ok

\* C21: in the always-validating scripts every successful PUT that carries
\* the inventory is followed at once by a verification re-read, and every
\* re-read belongs to the run of re-reads that follows such a PUT; a failed
\* PUT is followed by no re-read, and the price PUT of MSPI and RU, which
\* carries no inventory, is the last remote call of its row, verified by no
\* re-read.
C21_InventoryApplyVerified ==
    (script \in AlwaysValidating /\ pc = "row")
        => /\ \A i \in Puts :
                 (calls[i].ok /\ calls[i].inv.has)
                     => (i < Len(calls) /\ calls[i + 1].op = "GET")
           /\ \A j \in Rereads :
                 \E i \in Puts :
                    /\ i < j /\ calls[i].ok /\ calls[i].inv.has
                    /\ \A k \in (i + 1)..j : calls[k].op = "GET"
           /\ \A i \in Puts :
                 (~calls[i].ok /\ i < Len(calls)) => calls[i + 1].op = "PUT"
           /\ \A i \in Puts : ~calls[i].inv.has => i = Len(calls)

C21_Witness ==
    /\ script = "MSPI" /\ FoundRow
    /\ Len(calls) = 4
    /\ calls[2].op = "PUT" /\ calls[2].ok /\ calls[2].inv.has
    /\ calls[3] = Get(TRUE)
    /\ calls[4].op = "PUT" /\ calls[4].ok /\ calls[4].price.has
    /\ stats.inventory_validated = 1

\* C22: a listing whose price amount is not a number affects its own row
\* only, in every script that compares prices: no price is sent for the row,
\* and the run goes on to the next row.
C22_BadRemotePriceOneRow ==
    (/\ script \in {"MSPI", "PVU", "RU"}
     /\ last.kind \in {"found", "aborted"}
     /\ remote.price.k = "bad"
     /\ last.posted_price.has
     /\ ~IntRaises(RowStock))
        => /\ pc = "row"
           /\ \A i \in Puts : ~calls[i].price.has

\* C23: in the scraper, an input file without a 'sku' column is skipped: the
\* loop goes on to the next name of STORE_FILES, and the run ends with the
\* workbook written or with no data, never inside the loop.
C23_MissingSkuColumnSkipped ==
    (mPc # "idle" /\ cur_file.found /\ ~cur_file.sku_column)
        => /\ mPc \in {"files", "written", "nodata"}
           /\ file_pos >= 1

\* the re-reads of the call that found the listing with the expected inventory
MatchingReads == {i \in 1..max_retries : fIn.reads[i] /\ fIn.inv = fIn.expected}

\* C24: validate_inventory_update ends after at most max_retries re-reads.
\* Each attempt is one re-read, found or not; it returns True at the first
\* re-read that shows the expected inventory, without a further re-read, and
\* False after max_retries re-reads when none shows it.
C24_BoundedRetries ==
    fPc = "returned"
        => /\ Len(fOut.log) >= 1
           /\ Len(fOut.log) <= max_retries
           /\ \A i \in 1..Len(fOut.log) : fOut.log[i] = Get(fIn.reads[i])
           /\ fOut.ok
                 => /\ Len(fOut.log) \in MatchingReads
                    /\ \A i \in MatchingReads : i >= Len(fOut.log)
           /\ ~fOut.ok
                 => /\ Len(fOut.log) = max_retries
                    /\ MatchingReads = {}

C24_Witness ==
    /\ fPc = "returned"
    /\ fOut.ok
    /\ fOut.log = <<Get(FALSE), Get(TRUE)>>
    /\ fIn.reads[3]

\* the row in hand had its inventory update accepted
InventoryApplied == \E i \in Puts : calls[i].ok /\ calls[i].inv.has

RaiseOnly == {"MSPI", "RU"}

\* C26: under the raise-only scripts, with the remote storing what an accepted
\* PUT sends, no step over the rows of a listing takes its price below what
\* it was: a numeric price stays numeric and never goes down.
C26_PriceNeverDecreases ==
    [][(/\ script \in RaiseOnly
        /\ store' = store
        /\ remote.exists
        /\ remote.price.k = "num")
           => /\ remote'.price.k = "num"
              /\ remote'.price.v >= remote.price.v]_vars

\* a row posting 50 against a listing raised to 150 by the row before it
C26_Witness ==
    /\ script = "MSPI" /\ FoundRow
    /\ stats.price_updated = 1
    /\ last.row.price = NumCell(50)
    /\ last.reverb_price = Some(150)
    /\ ~PriceSent
    /\ remote.price = NumPrice(150)

\* the PUTs of the first pass of the row
FirstPuts == {i \in DOMAIN fIn.calls : fIn.calls[i].op = "PUT"}

\* the first pass of the row sent one PUT or more, each was accepted, and the
\* listing holds the inventory that was sent
FirstPassApplied ==
    /\ fIn.kind = "found"
    /\ FirstPuts # {}
    /\ \A i \in FirstPuts :
          /\ fIn.calls[i].ok
          /\ fIn.calls[i].inv.has => fIn.remote.inv = fIn.calls[i].inv.v

\* C27: with the remote storing what an accepted PUT sends, a row processed
\* again after every PUT of its first pass was accepted ends as a row, sends
\* no PUT and leaves the listing as it was, under every script.
C27_SecondPassSendsNothing ==
    (fPc = "again" /\ pc # "loop" /\ FirstPassApplied)
        => /\ pc = "row"
           /\ Puts = {}
           /\ remote = fIn.remote

C27_Witness ==
    /\ script = "PVU" /\ fPc = "again" /\ FoundRow
    /\ FirstPassApplied
    /\ \E i \in FirstPuts : fIn.calls[i].inv.has /\ fIn.calls[i].price.has
    /\ Puts = {}
    /\ stats.inventory_skipped = 1
    /\ stats.price_skipped_no_change = 1

\* C28: in the Price Variance Updater the review list has one record for each
\* price update counted in price_added_to_review, at every point of the run,
\* also when a PUT is refused.
C28_ReviewRecordsCounted ==
    script = "PVU" => Len(price_variance_data) = overall_stats.price_added_to_review

\* C29: in the Price Variance Updater every row of a store is in one of the
\* four counters: total = inventory_updated + inventory_skipped + not_found +
\* errors, a row with equal inventory and an updated price counting as
\* inventory_skipped.
C29_InventoryCountersComplete ==
    (script = "PVU" /\ pc \in {"row", "loop", "store", "done"})
        => stats.total = stats.inventory_updated + stats.inventory_skipped
                            + stats.not_found + stats.errors

\* the STORES NAME cell in hand is a text whose trimmed upper-case form is key
NameIs(key) == fIn.kind = "str" /\ upper(strip(fIn.s)) = key

\* C30: normalize_store_name returns None for a store name that is empty
\* after trimming, and returns the key itself for a name equal to a key of
\* STORES.
C30_EmptyUnknownKeyItself ==
    fPc = "returned"
        => /\ NameIs(<<>>) => fOut = NoStore
           /\ \A k \in 1..Len(STORES) :
                 NameIs(STORES[k]) => fOut = [found |-> TRUE, key |-> STORES[k]]

====
